---------------------------- MODULE Spec2Model ----------------------------
(***************************************************************************)
(* Model of the ANS expense pipeline:                                      *)
(*   02_processar_arquivos.py  (archive walker, table reader, classifier,  *)
(*                              field mapper, period extraction)           *)
(*   03_validar_dados.py       (validator)                                 *)
(*   05_agregar_despesas.py    (chunked aggregator)                        *)
(*                                                                         *)
(* Text is modelled as sequences of one-character strings, so that         *)
(* strip/upper/regex searches/number parsing are computed, not assumed.    *)
(***************************************************************************)
EXTENDS Integers, Sequences, FiniteSets, TLC

VARIABLES
    \* ---- period extraction driver (02: lines 39-52, 162-164)
    nmName, nmPc,
    \* ---- processar_arquivos locals that the extraction driver shares
    ano, trimestre,
    \* ---- table reader driver (02: lines 55-76)
    rdFile, rdOut, rdPc,
    \* ---- processar_arquivos (02: lines 142-207)
    rawDir,            \* the *.zip entries of data/raw (archive ids)
    CSV_FINAL,         \* the consolidated store: [exists, lines]
    pc,                \* "idle" | "zip" | "extract" | "file"
    arquivos_zip,      \* sorted archive list of the run
    zi,                \* position of the archive loop
    files,             \* extracted files of the open archive, in walk order
    fi,                \* position of the file loop
    primeira_escrita,
    scratch,           \* archives whose TemporaryDirectory exists
    \* ---- history of the walker (not program state)
    staleCount,        \* leading lines of the store written by earlier runs
    failed,            \* <<archive, file index>> whose append raised, this run
    appended,          \* <<archive, file index>> appended, this run
    last,              \* record of the latest finished run
    repeated,          \* the latest run had the archives and the append
                       \* failures of the run before it
    sameStore          \* the latest run left the store as the run before it

    ,
    \* ---- executar_validacao (03: lines 36-115)
    vIn,               \* data/output/consolidado_despesas.csv as a table
    vMap,              \* data/raw/registro_ans_info.csv
    vDf,               \* df with CNPJ_Valido, before the value filter
    vOut,              \* data/processed/dados_validados.csv: [exists, lines]
    vPc

    ,
    \* ---- executar_agregacao (05: lines 35-94)
    aIn,               \* data/processed/dados_validados.csv: [exists, hasUF, rows]
    chunksize,
    aPos,              \* rows the reader has handed out
    quarter_parts,     \* one table of period sums per chunk
    quarters,          \* the period sums after the second groupby
    stats,             \* the rows per (RazaoSocial, UF) before sort_values
    aOut,              \* data/output/despesas_agregadas.csv: [exists, lines]
    aPc

    ,
    \* ---- executar_enriquecimento_total (04: lines 47-124)
    cadastro,          \* the registry snapshot, as lines 57-102 make it
    ePc

nameVars == <<nmName, nmPc>>
enrVars == <<cadastro, ePc>>
aggVars == <<aIn, chunksize, aPos, quarter_parts, quarters, stats, aOut, aPc>>
valVars == <<vIn, vMap, vDf, vOut, vPc>>
readVars == <<rdFile, rdOut, rdPc>>
periodVars == <<ano, trimestre>>
walkVars == <<rawDir, CSV_FINAL, pc, arquivos_zip, zi, files, fi,
              primeira_escrita, scratch, staleCount, failed, appended, last,
              repeated, sameStore>>
vars == <<nmName, nmPc, ano, trimestre, rdFile, rdOut, rdPc, rawDir, CSV_FINAL,
          pc, arquivos_zip, zi, files, fi, primeira_escrita, scratch,
          staleCount, failed, appended, last, repeated, sameStore,
          vIn, vMap, vDf, vOut, vPc,
          aIn, chunksize, aPos, quarter_parts, quarters, stats, aOut, aPc,
          cadastro, ePc>>

(***************************************************************************)
(* Generic helpers                                                         *)
(***************************************************************************)
\* Python's None for an optional tuple
None == <<>>
\* the walker's "N/A"
NA == <<"N", "/", "A">>

DigitChars == {"0", "1", "2", "3", "4", "5", "6", "7", "8", "9"}
DigitSeq == <<"0", "1", "2", "3", "4", "5", "6", "7", "8", "9">>

IsDigit(c) == c \in DigitChars

\* int() of one decimal digit
DigitVal(c) == (CHOOSE i \in 1..10 : DigitSeq[i] = c) - 1

\* int() of a string of decimal digits (leading zeros vanish: int("0250") = 250)
RECURSIVE IntOf(_)
IntOf(s) ==
    IF Len(s) = 0 THEN 0
    ELSE 10 * IntOf(SubSeq(s, 1, Len(s) - 1)) + DigitVal(s[Len(s)])

\* str() of a non-negative int
RECURSIVE StrOfInt(_)
StrOfInt(n) ==
    IF n < 10 THEN <<DigitSeq[n + 1]>>
    ELSE StrOfInt(n \div 10) \o <<DigitSeq[(n % 10) + 1]>>

RECURSIVE Concat(_)
Concat(ss) == IF Len(ss) = 0 THEN <<>> ELSE Head(ss) \o Concat(Tail(ss))

Min(S) == CHOOSE x \in S : \A y \in S : x <= y

(***************************************************************************)
(* _extract_year_quarter_from_name  (02_processar_arquivos.py:39-52)       *)
(***************************************************************************)
QuarterChars == {"1", "2", "3", "4"}

\* re.search(r"([1-4])T(\d{4})", IGNORECASE) matching at position i
Rule1At(name, i) ==
    /\ i + 5 <= Len(name)
    /\ name[i] \in QuarterChars
    /\ name[i + 1] \in {"T", "t"}
    /\ \A k \in 2..5 : IsDigit(name[i + k])

\* length of the run of non-digits starting at position p
RECURSIVE NonDigitRun(_, _)
NonDigitRun(name, p) ==
    IF p > Len(name) \/ IsDigit(name[p]) THEN 0
    ELSE 1 + NonDigitRun(name, p + 1)

\* re.search(r"(\d{4})[^0-9]{0,3}([1-4])(?:[_\- ]|$)") matching at position i.
\* After the four digits the separator group has to swallow the whole run of
\* non-digits (the next group needs a digit), so the run length decides.
Rule2At(name, i) ==
    /\ i + 3 <= Len(name)
    /\ \A k \in 0..3 : IsDigit(name[i + k])
    /\ LET r == NonDigitRun(name, i + 4)
           q == i + 4 + r
       IN  /\ r <= 3
           /\ q <= Len(name)
           /\ name[q] \in QuarterChars
           /\ (q = Len(name) \/ name[q + 1] \in {"_", "-", " "})

Rule2Quarter(name, i) == DigitVal(name[i + 4 + NonDigitRun(name, i + 4)])

\* re.search(r"(\d{6})") matching at position i
Rule3At(name, i) ==
    /\ i + 5 <= Len(name)
    /\ \A k \in 0..5 : IsDigit(name[i + k])

_extract_year_quarter_from_name(name) ==
    LET P1 == {i \in 1..Len(name) : Rule1At(name, i)}
        P2 == {i \in 1..Len(name) : Rule2At(name, i)}
        P3 == {i \in 1..Len(name) : Rule3At(name, i)}
    IN  IF P1 # {} THEN
            LET i == Min(P1)
            IN  <<IntOf(SubSeq(name, i + 2, i + 5)), DigitVal(name[i])>>
        ELSE IF P2 # {} THEN
            LET i == Min(P2)
            IN  <<IntOf(SubSeq(name, i, i + 3)), Rule2Quarter(name, i)>>
        ELSE IF P3 # {} THEN
            LET i == Min(P3)
                y == IntOf(SubSeq(name, i, i + 3))
                mon == IntOf(SubSeq(name, i + 4, i + 5))
            IN  IF 1 <= mon /\ mon <= 12
                THEN <<y, ((mon - 1) \div 3) + 1>>
                ELSE None
        ELSE None

\* processar_arquivos lines 162-164
AnoOf(name) ==
    LET yq == _extract_year_quarter_from_name(name)
    IN  IF yq # None THEN StrOfInt(yq[1]) ELSE NA

TrimestreOf(name) ==
    LET yq == _extract_year_quarter_from_name(name)
    IN  IF yq # None THEN StrOfInt(yq[2]) ELSE NA

(***************************************************************************)
(* Text helpers: str.strip, str.upper, substring search, split             *)
(***************************************************************************)
LowerSeq == <<"a", "b", "c", "d", "e", "f", "g", "h", "i", "j", "k", "l", "m",
              "n", "o", "p", "q", "r", "s", "t", "u", "v", "w", "x", "y", "z">>
UpperSeq == <<"A", "B", "C", "D", "E", "F", "G", "H", "I", "J", "K", "L", "M",
              "N", "O", "P", "Q", "R", "S", "T", "U", "V", "W", "X", "Y", "Z">>

UpperChar(c) ==
    IF \E i \in 1..26 : LowerSeq[i] = c
    THEN UpperSeq[CHOOSE i \in 1..26 : LowerSeq[i] = c]
    ELSE c

LowerChar(c) ==
    IF \E i \in 1..26 : UpperSeq[i] = c
    THEN LowerSeq[CHOOSE i \in 1..26 : UpperSeq[i] = c]
    ELSE c

Upper(s) == [i \in 1..Len(s) |-> UpperChar(s[i])]
Lower(s) == [i \in 1..Len(s) |-> LowerChar(s[i])]

Whitespace == {" ", "\t", "\n"}

RECURSIVE LStrip(_)
LStrip(s) == IF Len(s) > 0 /\ Head(s) \in Whitespace THEN LStrip(Tail(s)) ELSE s

RECURSIVE RStrip(_)
RStrip(s) ==
    IF Len(s) > 0 /\ s[Len(s)] \in Whitespace
    THEN RStrip(SubSeq(s, 1, Len(s) - 1))
    ELSE s

Strip(s) == RStrip(LStrip(s))

\* `sub in s` / re.search of a literal
Contains(s, sub) ==
    \E i \in 1..(Len(s) - Len(sub) + 1) : SubSeq(s, i, i + Len(sub) - 1) = sub

\* s.split(d) for a one-character d
RECURSIVE SplitOn(_, _)
SplitOn(s, d) ==
    IF \A i \in 1..Len(s) : s[i] # d THEN <<s>>
    ELSE LET i == Min({k \in 1..Len(s) : s[k] = d})
         IN  <<SubSeq(s, 1, i - 1)>> \o SplitOn(SubSeq(s, i + 1, Len(s)), d)

RECURSIVE SelectSeqIdx(_, _, _)
\* the elements of s at the indices (in order) that satisfy keep
SelectSeqIdx(s, keep, i) ==
    IF i > Len(s) THEN <<>>
    ELSE (IF i \in keep THEN <<s[i]>> ELSE <<>>) \o SelectSeqIdx(s, keep, i + 1)

(***************************************************************************)
(* Tables (DataFrames read with dtype=str).                                *)
(*   columns : sequence of column names (character sequences)              *)
(*   nonstr  : indices of the columns whose label is not a str (a          *)
(*             spreadsheet header cell holding a number); read_csv never   *)
(*             produces one                                                *)
(*   rows    : sequence of rows, each a sequence of cells; a cell is a     *)
(*             character sequence or NaN                                   *)
(***************************************************************************)
NaN == <<"NaN">>
NoTable == [ok |-> FALSE]
Table(cols, rows, nonstr) ==
    [ok |-> TRUE, columns |-> cols, rows |-> rows, nonstr |-> nonstr]

(***************************************************************************)
(* pd.read_csv(path, sep=sep, encoding=enc, dtype=str, engine="python")    *)
(* (02_processar_arquivos.py:71) on a file given by its bytes.  Bytes are  *)
(* one-character strings for ASCII, "E9" for the lone byte 0xE9 (e-acute   *)
(* in latin-1/cp1252, invalid as UTF-8), "81" for 0x81 (undefined in       *)
(* cp1252) and "C3A9" for the byte pair C3 A9 (e-acute in UTF-8, two       *)
(* characters in latin-1/cp1252).                                          *)
(***************************************************************************)
HighBytes == {"E9", "81"}

DecodeOk(bytes, enc) ==
    CASE enc = "utf-8"   -> \A i \in 1..Len(bytes) : bytes[i] \notin HighBytes
      [] enc = "latin-1" -> TRUE
      [] enc = "cp1252"  -> \A i \in 1..Len(bytes) : bytes[i] # "81"

DecodeUnit(b, enc) ==
    CASE b = "E9"   -> <<"e_acute">>
      [] b = "81"   -> <<"u0081">>
      [] b = "C3A9" -> IF enc = "utf-8" THEN <<"e_acute">>
                       ELSE <<"A_tilde", "copyright">>
      [] OTHER      -> <<b>>

Decode(bytes, enc) == Concat([i \in 1..Len(bytes) |-> DecodeUnit(bytes[i], enc)])

\* the non-blank lines of a text (skip_blank_lines=True)
TextLines(text) ==
    LET all == SplitOn(text, "\n")
    IN  SelectSeqIdx(all, {i \in 1..Len(all) : Len(all[i]) > 0}, 1)

\* header labels: an empty label becomes "Unnamed: <i>", a repeated one gets
\* ".<k>" appended (k = number of earlier columns with the same label)
Unnamed == <<"U", "n", "n", "a", "m", "e", "d", ":", " ">>

HeaderNames(fields) ==
    [i \in 1..Len(fields) |->
        LET raw == IF Len(fields[i]) = 0
                   THEN Unnamed \o StrOfInt(i - 1)
                   ELSE fields[i]
            k == Cardinality({j \in 1..(i - 1) : fields[j] = fields[i]})
        IN  IF k > 0 /\ Len(fields[i]) > 0
            THEN raw \o <<".">> \o StrOfInt(k)
            ELSE raw]

\* one data row: the implicit index fields are dropped, short rows are padded
\* with NaN, empty fields are NaN
RowCells(fields, ncols, implicit) ==
    [j \in 1..ncols |->
        IF j + implicit > Len(fields) \/ Len(fields[j + implicit]) = 0
        THEN NaN
        ELSE fields[j + implicit]]

read_csv(bytes, sep, enc) ==
    IF ~DecodeOk(bytes, enc) THEN NoTable              \* UnicodeDecodeError
    ELSE
    LET lines == TextLines(Decode(bytes, enc))
    IN  IF Len(lines) = 0 THEN NoTable                 \* EmptyDataError
        ELSE
        LET header == SplitOn(lines[1], sep)
            ncols == Len(header)
            data == [i \in 1..(Len(lines) - 1) |-> SplitOn(lines[i + 1], sep)]
            \* a first data row longer than the header gives an implicit index
            implicit == IF Len(data) > 0 /\ Len(data[1]) > ncols
                        THEN Len(data[1]) - ncols ELSE 0
        IN  IF \E i \in 1..Len(data) : Len(data[i]) > ncols + implicit
            THEN NoTable                               \* ParserError
            ELSE Table(HeaderNames(header),
                       [i \in 1..Len(data) |-> RowCells(data[i], ncols, implicit)],
                       {})

(***************************************************************************)
(* _try_read_table  (02_processar_arquivos.py:55-76)                       *)
(* A file is [path, bytes, excel]: path is its path below the scratch       *)
(* directory, excel is what pd.read_excel yields for it (a table, or       *)
(* NoTable when it raises).                                                *)
(***************************************************************************)
File(path, bytes, excel) == [path |-> path, bytes |-> bytes, excel |-> excel]

\* Path(...).suffix: from the last "." of the final component, unless that
\* is its first character
PathSuffix(path) ==
    LET comps == SplitOn(path, "/")
        nm == comps[Len(comps)]
        dots == {i \in 2..Len(nm) : nm[i] = "."}
    IN  IF dots = {} THEN <<>>
        ELSE LET d == CHOOSE i \in dots : \A j \in dots : j <= i
             IN  SubSeq(nm, d, Len(nm))

encodings == <<"utf-8", "latin-1", "cp1252">>
seps == <<";", ",", "\t", "|">>

\* the k-th (encoding, delimiter) pair of the nested loops, k in 1..12
PairEnc(k) == encodings[((k - 1) \div Len(seps)) + 1]
PairSep(k) == seps[((k - 1) % Len(seps)) + 1]
NumPairs == Len(encodings) * Len(seps)

\* the mutated acceptance takes any parse that did not raise
AcceptsAnyParse(df) == df.ok

\* lines 71-73: the parse did not raise and df.shape[1] > 1
Accepts(df) == df.ok /\ Len(df.columns) > 1

RECURSIVE TryPairsFrom(_, _)
TryPairsFrom(bytes, k) ==
    IF k > NumPairs THEN NoTable
    ELSE LET df == read_csv(bytes, PairSep(k), PairEnc(k))
         IN  IF Accepts(df) THEN df ELSE TryPairsFrom(bytes, k + 1)

_try_read_table(file) ==
    IF Lower(PathSuffix(file.path))
          \in {<<".", "x", "l", "s">>, <<".", "x", "l", "s", "x">>}
    THEN file.excel
    ELSE TryPairsFrom(file.bytes, 1)

(***************************************************************************)
(* _is_expense_table  (02_processar_arquivos.py:79-92)                     *)
(***************************************************************************)
W_REG_ANS == <<"R", "E", "G", "_", "A", "N", "S">>
W_VALOR == <<"V", "A", "L", "O", "R">>
W_VL_SALDO_FINAL ==
    <<"V", "L", "_", "S", "A", "L", "D", "O", "_", "F", "I", "N", "A", "L">>
W_CD_CONTA_CONTABIL ==
    <<"C", "D", "_", "C", "O", "N", "T", "A", "_",
      "C", "O", "N", "T", "A", "B", "I", "L">>
W_DESPESA == <<"D", "E", "S", "P", "E", "S", "A">>
W_SINISTRO == <<"S", "I", "N", "I", "S", "T", "R", "O">>
W_REGANS == <<"R", "E", "G", "A", "N", "S">>
W_REGISTROANS == <<"R", "E", "G", "I", "S", "T", "R", "O", "A", "N", "S">>
W_ANS == <<"A", "N", "S">>
W_VALOR_DESPESA == W_VALOR \o <<"_">> \o W_DESPESA
W_VALOR_FINAL == W_VALOR \o <<"_", "F", "I", "N", "A", "L">>
W_VLR == <<"V", "L", "R">>

keywords_cols ==
    {W_CD_CONTA_CONTABIL, W_VL_SALDO_FINAL, W_VALOR, W_REG_ANS, W_DESPESA,
     W_SINISTRO}

\* c.strip() on a label that is not a str raises AttributeError (line 81/97)
LabelsRaise(df) == df.nonstr # {}

\* line 81/97-98: {c.strip().upper() for c in df.columns}
UpperCols(df) == {Upper(Strip(df.columns[i])) : i \in 1..Len(df.columns)}

\* defined when ~LabelsRaise(df)
_is_expense_table(df) ==
    LET cols == UpperCols(df)
    IN  \/ cols \cap keywords_cols # {}
        \/ \E c \in cols :
              \/ Contains(c, <<"V", "A", "L">>)
              \/ Contains(c, <<"V", "L", "R">>)
              \/ Contains(c, <<"V", "L", "_">>)

(***************************************************************************)
(* _normalize_and_extract  (02_processar_arquivos.py:95-139)               *)
(* Numbers are exact decimals [m, e] = m / 10^e with no trailing zero in   *)
(* the fraction (binary rounding of float64 is not modelled).              *)
(***************************************************************************)
reg_candidates == <<W_REG_ANS, W_REGANS, W_REGISTROANS, W_ANS>>
val_candidates ==
    <<W_VL_SALDO_FINAL, W_VALOR, W_VALOR_DESPESA, W_VALOR_FINAL, W_VLR>>

\* first candidate that is a key of upper_cols (0: none)
FirstCandidate(cands, cols) ==
    IF \E k \in 1..Len(cands) : cands[k] \in cols
    THEN Min({k \in 1..Len(cands) : cands[k] \in cols})
    ELSE 0

\* upper_cols[key]: the dict comprehension keeps the last column of a key
ColumnOf(df, key) ==
    CHOOSE i \in 1..Len(df.columns) :
        /\ Upper(Strip(df.columns[i])) = key
        /\ \A j \in (i + 1)..Len(df.columns) : Upper(Strip(df.columns[j])) # key

\* lines 122-126: astype(str), drop all but [0-9,.-], "," -> "."
CleanValue(cell) ==
    LET s == IF cell = NaN THEN <<"n", "a", "n">> ELSE cell
        kept == SelectSeqIdx(s, {i \in 1..Len(s) :
                                   s[i] \in DigitChars \cup {",", ".", "-"}}, 1)
    IN  [i \in 1..Len(kept) |-> IF kept[i] = "," THEN "." ELSE kept[i]]

RECURSIVE StripTrailingZeros(_)
StripTrailingZeros(s) ==
    IF Len(s) > 0 /\ s[Len(s)] = "0"
    THEN StripTrailingZeros(SubSeq(s, 1, Len(s) - 1))
    ELSE s

NotNumber == [ok |-> FALSE]
Dec(m, e) == [ok |-> TRUE, m |-> m, e |-> e]

\* pd.to_numeric(errors="coerce") of one cleaned string (only digits, "." and
\* "-" are left): [-]digits[.digits] or [-].digits, anything else is NaN
to_numeric(s) ==
    LET neg == Len(s) > 0 /\ s[1] = "-"
        body == IF neg THEN Tail(s) ELSE s
        parts == SplitOn(body, ".")
        allDigits(x) == \A i \in 1..Len(x) : IsDigit(x[i])
    IN  IF /\ Len(parts) \in {1, 2}
           /\ \A k \in 1..Len(parts) : allDigits(parts[k])
           /\ \E k \in 1..Len(parts) : Len(parts[k]) > 0
        THEN LET frac == IF Len(parts) = 2
                         THEN StripTrailingZeros(parts[2]) ELSE <<>>
                 mag == IntOf(parts[1] \o frac)
             IN  Dec(IF neg THEN 0 - mag ELSE mag, Len(frac))
        ELSE NotNumber

NoRows == [ok |-> FALSE]

CanonicalRow(reg, tri, an, val) ==
    [kind |-> "row", RegistroANS |-> reg, Trimestre |-> tri, Ano |-> an,
     ValorDespesas |-> val]

\* defined when ~LabelsRaise(df); the except branch of lines 127-130 is not
\* reachable, errors="coerce" does not raise on strings
_normalize_and_extract(df, an, tri) ==
    LET cols == UpperCols(df)
        r == FirstCandidate(reg_candidates, cols)
        v == FirstCandidate(val_candidates, cols)
    IN  IF r = 0 \/ v = 0 THEN NoRows
        ELSE
        LET reg_col == ColumnOf(df, reg_candidates[r])
            val_col == ColumnOf(df, val_candidates[v])
            vals == [i \in 1..Len(df.rows) |->
                        to_numeric(CleanValue(df.rows[i][val_col]))]
            keep == {i \in 1..Len(df.rows) : vals[i].ok}
            all == [i \in 1..Len(df.rows) |->
                        CanonicalRow(df.rows[i][reg_col], tri, an, vals[i])]
            kept == SelectSeqIdx(all, keep, 1)
        IN  IF Len(kept) = 0 THEN NoRows
            ELSE [ok |-> TRUE, rows |-> kept]

(***************************************************************************)
(* Archive names for the extraction driver: concatenations of at most      *)
(* MaxParts pieces, which include the three names of the specification.    *)
(***************************************************************************)
MaxParts == 3

Despesas == <<"_", "d", "e", "s", "p", "e", "s", "a", "s", ".", "z", "i", "p">>
Relatorio == <<"r", "e", "l", "a", "t", "o", "r", "i", "o", ".", "z", "i", "p">>

Name1T2025 == <<"1", "T", "2", "0", "2", "5">> \o Despesas
Name202503 == <<"2", "0", "2", "5", "0", "3", "_">> \o Relatorio
NameRelatorio == Relatorio

NameParts ==
    { <<"1", "T">>, <<"4", "t">>, <<"2", "0", "2", "5">>, <<"0", "3">>,
      <<"1", "3">>, <<"_">>, <<"x">>, <<"2">>, <<".", "z", "i", "p">>,
      Despesas, <<"_">> \o Relatorio }

RECURSIVE PartSeqs(_)
PartSeqs(n) ==
    IF n = 0 THEN {<<>>}
    ELSE LET shorter == PartSeqs(n - 1)
         IN  shorter \cup {Append(s, p) : s \in {t \in shorter : Len(t) = n - 1},
                                          p \in NameParts}

ArchiveNames == {Concat(ps) : ps \in PartSeqs(MaxParts)} \cup {NameRelatorio}

(***************************************************************************)
(* Files for the table reader driver: every byte string of at most         *)
(* MaxBytes units over ReadAlphabet, as a text file; and spreadsheets.     *)
(***************************************************************************)
MaxBytes == 4

ReadAlphabet == {"A", ";", ",", "|", "\n", "E9", "C3A9"}

RECURSIVE ByteStrings(_)
ByteStrings(n) ==
    IF n = 0 THEN {<<>>}
    ELSE LET shorter == ByteStrings(n - 1)
         IN  shorter \cup {Append(s, b) : s \in {t \in shorter : Len(t) = n - 1},
                                          b \in ReadAlphabet}

PathCsv == <<"f", ".", "c", "s", "v">>
PathTXT == <<"d", "/", "f", ".", "T", "X", "T">>
PathXLSX == <<"f", ".", "X", "L", "S", "X">>
PathXls == <<"f", ".", "x", "l", "s">>

SheetAB == Table(<<<<"A">>, <<"B">>>>, <<<<<<"1">>, <<"2">>>>>>, {})

ReadFiles ==
    {File(pth, b, NoTable) : pth \in {PathCsv, PathTXT}, b \in ByteStrings(MaxBytes)}
    \cup {File(pth, <<>>, x) : pth \in {PathXLSX, PathXls}, x \in {NoTable, SheetAB}}

(***************************************************************************)
(* processar_arquivos  (02_processar_arquivos.py:142-207)                  *)
(***************************************************************************)
\* code-point order of the characters that occur in archive names
AsciiOrder ==
    <<" ", "-", ".", "/">> \o DigitSeq \o UpperSeq \o <<"_">> \o LowerSeq

Ord(c) == CHOOSE i \in 1..Len(AsciiOrder) : AsciiOrder[i] = c

\* a < b for strings (what sorted() compares on the paths)
RECURSIVE StrLess(_, _)
StrLess(a, b) ==
    IF Len(b) = 0 THEN FALSE
    ELSE IF Len(a) = 0 THEN TRUE
    ELSE IF a[1] # b[1] THEN Ord(a[1]) < Ord(b[1])
    ELSE StrLess(Tail(a), Tail(b))

HeaderLine == [kind |-> "header"]
Store(exists, lines) == [exists |-> exists, lines |-> lines]
Absent == Store(FALSE, <<>>)

\* the mutated with block leaves the directory behind
cleanup_skipped(dirs, td) == dirs

\* line 166: leaving `with tempfile.TemporaryDirectory() as td` (by the end
\* of the block, by continue or by an exception) removes td
cleanup(dirs, td) == dirs \ {td}

\* the mutated clearing leaves the previous output in place
keep_previous(store) == store

\* lines 155-156: if CSV_FINAL.exists(): CSV_FINAL.unlink()
unlink_previous(store) == IF store.exists THEN Absent ELSE store

\* the mutated write opens the store with mode='w'
to_csv_replace(store, rows, header) ==
    Store(TRUE, (IF header THEN <<HeaderLine>> ELSE <<>>) \o rows)

\* line 198 when it does not raise:
\* dfn.to_csv(CSV_FINAL, mode='a', index=False, header=primeira_escrita)
to_csv_append(store, rows, header) ==
    Store(TRUE, store.lines \o (IF header THEN <<HeaderLine>> ELSE <<>>) \o rows)

(***************************************************************************)
(* The archives data/raw may hold.  An archive is [name, corrupt, files];  *)
(* files is the order in which os.walk lists the extracted entries (a      *)
(* function of the archive on a given platform).                           *)
(***************************************************************************)
Archive(name, corrupt, fs) == [name |-> name, corrupt |-> corrupt, files |-> fs]

DotZip == <<".", "z", "i", "p">>
DotCsv == <<".", "c", "s", "v">>

\* "REG_ANS;VALOR\n1;5\n2;R$ 7,50\n3;x"
BytesGood1 ==
    W_REG_ANS \o <<";">> \o W_VALOR
    \o <<"\n", "1", ";", "5", "\n", "2", ";", "R", "$", " ", "7", ",", "5", "0",
         "\n", "3", ";", "x">>
\* " reg_ans ,vlr\n7,-3" (latin-1 only: a stray 0xE9 in the last line)
BytesGood2 ==
    <<" ", "r", "e", "g", "_", "a", "n", "s", " ", ",", "v", "l", "r",
      "\n", "7", ",", "-", "3", "\n", "E9", ",", "0">>
\* one column under every delimiter
BytesOneColumn == <<"a", "b", "c", "\n", "1">>
\* "A;B\n1;2"
BytesNotExpense == <<"A", ";", "B", "\n", "1", ";", "2">>
\* "VALOR;X\n5;1": an expense table without a registry column
BytesNoRegistry == W_VALOR \o <<";", "X", "\n", "5", ";", "1">>
\* "ANS|VALOR\n1|abc": no parseable value
BytesNoValue == W_ANS \o <<"|">> \o W_VALOR \o <<"\n", "1", "|", "a", "b", "c">>

SheetGood ==
    Table(<<W_REGISTROANS, W_VALOR_FINAL>>,
          <<<<<<"9">>, <<"1", "0">>>>, <<NaN, <<"2">>>>>>, {})
\* a sheet whose first header cell holds the number 2025
SheetIntHeader ==
    Table(<<<<"2", "0", "2", "5">>, W_VALOR>>, <<<<<<"1">>, <<"2">>>>>>, {1})

Catalogue ==
    << Archive(<<"r", "e", "l", "a", "t", "o", "r", "i", "o">> \o DotZip, FALSE,
               << File(<<"_", "_", "M", "A", "C", "O", "S", "X", "/", "g">> \o DotCsv,
                       BytesGood1, NoTable),
                  File(<<"n">> \o DotCsv, BytesNotExpense, NoTable),
                  File(<<"b", "a", "d", ".", "x", "l", "s", "x">>, <<>>, NoTable),
                  File(<<"s", ".", "X", "L", "S", "X">>, <<>>, SheetGood) >>),
       Archive(<<"2", "T", "2", "0", "2", "5">> \o DotZip, TRUE, <<>>),
       Archive(<<"1", "T", "2", "0", "2", "5">> \o DotZip, FALSE,
               << File(<<"a">> \o DotCsv, BytesGood1, NoTable),
                  File(<<"u", ".", "t", "x", "t">>, BytesOneColumn, NoTable),
                  File(<<"b">> \o DotCsv, BytesGood2, NoTable) >>),
       Archive(<<"2", "0", "2", "5", "0", "3", "_", "r", "e", "l">> \o DotZip, FALSE,
               << File(<<"m">> \o DotCsv, BytesNoRegistry, NoTable),
                  File(<<"v">> \o DotCsv, BytesNoValue, NoTable),
                  File(<<"i", ".", "x", "l", "s">>, <<>>, SheetIntHeader),
                  File(<<"z">> \o DotCsv, BytesGood1, NoTable) >>) >>

ArchiveIds == 1..Len(Catalogue)

\* line 149: sorted(RAW_DIR.glob("*.zip"))
RECURSIVE SortedArchives(_)
SortedArchives(dir) ==
    IF dir = {} THEN <<>>
    ELSE LET first == CHOOSE a \in dir :
                         \A b \in dir \ {a} : StrLess(Catalogue[a].name, Catalogue[b].name)
         IN  <<first>> \o SortedArchives(dir \ {first})

\* line 179: "__MACOSX" in str(fpath)
IsMacosx(file) == Contains(file.path, <<"_", "_", "M", "A", "C", "O", "S", "X">>)

NoRun == [valid |-> FALSE]
RunRecord(outcome, dir, fl, ap, store) ==
    [valid |-> TRUE, outcome |-> outcome, dir |-> dir, failed |-> fl,
     appended |-> ap, store |-> store]

IdleWalk ==
    /\ rawDir = {} /\ CSV_FINAL = Absent /\ pc = "off" /\ arquivos_zip = <<>>
    /\ zi = 0 /\ files = <<>> /\ fi = 0 /\ primeira_escrita = TRUE
    /\ scratch = {} /\ staleCount = 0 /\ failed = {} /\ appended = {}
    /\ last = NoRun /\ repeated = FALSE /\ sameStore = FALSE
IdlePeriod == ano = NA /\ trimestre = NA

(***************************************************************************)
(* executar_validacao  (03_validar_dados.py:36-115)                        *)
(*                                                                         *)
(* The consolidated file is given as the table pd.read_csv makes of it:    *)
(*   [state, hasValor, rows]; state is "missing" (FileNotFoundError),      *)
(*   "unreadable" (any other exception) or "ok"; a row is                  *)
(*   [RegistroANS, Trimestre, Ano, ValorDespesas], each a cell.            *)
(* The mapping file is [state, hasReg, hasIdent, rows]; state is "absent", *)
(* "unreadable" or "ok"; a row is [RegistroANS, CNPJ, RazaoSocial].        *)
(***************************************************************************)
\* lines 29-34: str(cnpj) without ".", "/", "-" has 14 characters
validar_cnpj(cnpj) ==
    LET s == IF cnpj = NaN THEN <<"n", "a", "n">> ELSE cnpj
        t == SelectSeqIdx(s, {i \in 1..Len(s) : s[i] \notin {".", "/", "-"}}, 1)
    IN  Len(t) = 14

\* line 94: pd.to_numeric(errors='coerce') of a cell of the consolidated file
CoerceValue(cell) == IF cell = NaN THEN NotNumber ELSE to_numeric(cell)

\* the mutated filter keeps zero
NonNegativeValue(v) == v.ok /\ v.m >= 0

\* line 97: df['ValorDespesas'] > 0 (NaN > 0 is False)
PositiveValue(v) == v.ok /\ v.m > 0

\* lines 56-57: astype(str) of the key column.  pd.read_csv makes a column of
\* digit strings int64, float64 when a cell is missing ("7" -> "7.0", NaN ->
\* "nan"), and leaves any other column as text.
KeyAsStr(cell, column) ==
    LET numeric == \A i \in 1..Len(column) :
                       column[i] = NaN
                       \/ (Len(column[i]) > 0
                           /\ \A k \in 1..Len(column[i]) : IsDigit(column[i][k]))
        holes == \E i \in 1..Len(column) : column[i] = NaN
    IN  IF cell = NaN THEN <<"n", "a", "n">>
        ELSE IF numeric /\ holes THEN StrOfInt(IntOf(cell)) \o <<".", "0">>
        ELSE IF numeric THEN StrOfInt(IntOf(cell))
        ELSE cell

\* whether lines 52-58 merge: the mapping is there, can be read and has the
\* columns the merge selects
Merges(map) == map.state = "ok" /\ map.hasReg /\ map.hasIdent

DfRow(src, reg, cnpj, razao, tri, an, val, hasCnpj) ==
    [src |-> src, RegistroANS |-> reg, CNPJ |-> cnpj, RazaoSocial |-> razao,
     Trimestre |-> tri, Ano |-> an, ValorDespesas |-> val,
     CNPJ_Valido |-> IF hasCnpj THEN validar_cnpj(cnpj) ELSE FALSE]

\* lines 48-94 for input row i: the rows of df it turns into (src is the
\* input row they stem from, kept for the properties).  A left merge gives
\* one row per matching mapping row, in mapping order, and one row with
\* missing identity when nothing matches; without a merge CNPJ and
\* RazaoSocial are "" (lines 65-69) or, when the mapping was there but no
\* merge took place, not columns of df at all (filled with "" in lines
\* 104-106).
RowsOfInput(inp, map, i) ==
    LET row == inp.rows[i]
        keycol == [k \in 1..Len(inp.rows) |-> inp.rows[k].RegistroANS]
        val == IF inp.hasValor THEN CoerceValue(row.ValorDespesas) ELSE NotNumber
    IN  IF Merges(map) THEN
            LET key == KeyAsStr(row.RegistroANS, keycol)
                hits == SelectSeqIdx(map.rows,
                            {k \in 1..Len(map.rows) : map.rows[k].RegistroANS = key}, 1)
            IN  IF Len(hits) = 0
                THEN <<DfRow(i, key, NaN, NaN, row.Trimestre, row.Ano, val, TRUE)>>
                ELSE [k \in 1..Len(hits) |->
                        DfRow(i, key, hits[k].CNPJ, hits[k].RazaoSocial,
                              row.Trimestre, row.Ano, val, TRUE)]
        ELSE <<DfRow(i, row.RegistroANS, <<>>, <<>>, row.Trimestre, row.Ano, val,
                     map.state = "absent")>>

BuildDf(inp, map) ==
    Concat([i \in 1..Len(inp.rows) |-> RowsOfInput(inp, map, i)])

\* lines 97-108: the filter and the projection on the output columns
OutputLine(r) ==
    [src |-> r.src, CNPJ |-> r.CNPJ, RazaoSocial |-> r.RazaoSocial,
     Trimestre |-> r.Trimestre, Ano |-> r.Ano, ValorDespesas |-> r.ValorDespesas]

FilterPositive(df) ==
    LET kept == SelectSeqIdx(df, {k \in 1..Len(df) : PositiveValue(df[k].ValorDespesas)}, 1)
    IN  [k \in 1..Len(kept) |-> OutputLine(kept[k])]

(***************************************************************************)
(* Inputs of the validator: at most MaxValRows rows                        *)
(***************************************************************************)
MaxValRows == 3

ValueCells ==
    {NaN, <<"x">>, <<"-", "5">>, <<"0">>, <<"0", ".", "0", "1">>}

InRow(reg, val) ==
    [RegistroANS |-> reg, Trimestre |-> <<"1">>, Ano |-> <<"2", "0", "2", "5">>,
     ValorDespesas |-> val]

InRows == {InRow(reg, val) : reg \in {<<"7">>, NaN}, val \in ValueCells}

RECURSIVE RowSeqs(_, _)
RowSeqs(S, n) ==
    IF n = 0 THEN {<<>>}
    ELSE LET shorter == RowSeqs(S, n - 1)
         IN  shorter \cup {Append(s, r) : s \in {t \in shorter : Len(t) = n - 1},
                                          r \in S}

Cnpj14 == <<"1", "2", ".", "3", "4", "5", ".", "6", "7", "8", "/",
            "0", "0", "0", "1", "-", "9", "0">>
CnpjLetters == <<"1", "2", "3", "4", "5", "6", "7", "8", "9", "0", "1", "2", "3", "X">>
MapRow(reg, cnpj, razao) == [RegistroANS |-> reg, CNPJ |-> cnpj, RazaoSocial |-> razao]
Mapping(state, hasReg, hasIdent, rows) ==
    [state |-> state, hasReg |-> hasReg, hasIdent |-> hasIdent, rows |-> rows]

Mappings ==
    { Mapping("absent", FALSE, FALSE, <<>>),
      Mapping("unreadable", FALSE, FALSE, <<>>),
      Mapping("ok", FALSE, TRUE, <<>>),
      Mapping("ok", TRUE, FALSE, <<>>),
      Mapping("ok", TRUE, TRUE, <<MapRow(<<"7">>, Cnpj14, <<"A">>)>>),
      Mapping("ok", TRUE, TRUE,
              <<MapRow(<<"7", ".", "0">>, <<"1", "2", "3">>, NaN)>>),
      Mapping("ok", TRUE, TRUE, <<MapRow(<<"7">>, CnpjLetters, <<"A">>)>>),
      Mapping("ok", TRUE, TRUE,
              <<MapRow(<<"7">>, NaN, <<"A">>), MapRow(<<"8">>, Cnpj14, <<"B">>),
                MapRow(<<"7">>, Cnpj14, <<"C">>)>>) }

Consolidated(state, hasValor, rows) ==
    [state |-> state, hasValor |-> hasValor, rows |-> rows]

ValInputs ==
    {Consolidated("ok", TRUE, rows) : rows \in RowSeqs(InRows, MaxValRows)}
    \cup {Consolidated("missing", TRUE, <<>>), Consolidated("unreadable", TRUE, <<>>),
          Consolidated("ok", FALSE, <<InRow(<<"7">>, NaN)>>)}

StaleOutput ==
    Store(TRUE, <<[src |-> 0, CNPJ |-> <<>>, RazaoSocial |-> <<>>,
                   Trimestre |-> <<"4">>, Ano |-> <<"2", "0", "2", "4">>,
                   ValorDespesas |-> Dec(1, 0)]>>)

IdleVal ==
    /\ vIn = Consolidated("missing", TRUE, <<>>)
    /\ vMap = Mapping("absent", FALSE, FALSE, <<>>)
    /\ vDf = <<>> /\ vOut = Absent /\ vPc = "off"

(***************************************************************************)
(* executar_agregacao  (05_agregar_despesas.py:35-94)                      *)
(*                                                                         *)
(* The validated file is given by its data rows, each                      *)
(* [RazaoSocial, UF, Ano, Trimestre, ValorDespesas] of cells, comma        *)
(* separated as the validator writes it.  Amounts are whole numbers, so    *)
(* that sums are exact.                                                    *)
(***************************************************************************)
\* A value of a key column of a chunk: a number, a text or missing
Key(t, v) == [t |-> t, v |-> v]
NullKey == Key("nan", <<>>)

NumericCell(cell) ==
    cell = NaN \/ (Len(cell) > 0 /\ \A k \in 1..Len(cell) : IsDigit(cell[k]))

\* line 49: pd.read_csv(chunksize=...) settles the type of a column chunk by
\* chunk: a chunk whose cells all are numbers (or missing) holds numbers,
\* any other chunk holds the cells as text
InferKey(cell, column) ==
    IF cell = NaN THEN NullKey
    ELSE IF \A i \in 1..Len(column) : NumericCell(column[i])
         THEN Key("num", StrOfInt(IntOf(cell)))
         ELSE Key("str", cell)

\* line 57: to_numeric(errors='coerce').fillna(0)
fillna_zero(v) == IF v.ok THEN v.m ELSE 0

\* lines 49-57: the chunk of rows start..stop as a frame; a column the file
\* does not have is added as None
ChunkFrame(inp, start, stop) ==
    LET col(name) == [k \in 1..(stop - start + 1) |-> inp.rows[start + k - 1][name]]
    IN  [k \in 1..(stop - start + 1) |->
            LET row == inp.rows[start + k - 1]
            IN  [RazaoSocial |-> InferKey(row.RazaoSocial, col("RazaoSocial")),
                 UF |-> IF inp.hasUF THEN InferKey(row.UF, col("UF")) ELSE NullKey,
                 Ano |-> InferKey(row.Ano, col("Ano")),
                 Trimestre |-> InferKey(row.Trimestre, col("Trimestre")),
                 ValorDespesas |-> fillna_zero(CoerceValue(row.ValorDespesas))]]

PeriodKey(r) ==
    [RazaoSocial |-> r.RazaoSocial, UF |-> r.UF, Ano |-> r.Ano,
     Trimestre |-> r.Trimestre]
EntityKey(r) == [RazaoSocial |-> r.RazaoSocial, UF |-> r.UF]

RECURSIVE SumSeq(_)
SumSeq(xs) == IF Len(xs) = 0 THEN 0 ELSE Head(xs) + SumSeq(Tail(xs))

\* the ValorDespesas of the rows of frame whose key (keys[k] for row k) is key
ValuesOf(frame, keys, key) ==
    LET hits == SelectSeqIdx(frame, {k \in 1..Len(frame) : keys[k] = key}, 1)
    IN  [k \in 1..Len(hits) |-> hits[k].ValorDespesas]

\* lines 59-63 and 73-77: groupby([RazaoSocial, UF, Ano, Trimestre],
\* dropna=False)['ValorDespesas'].sum().reset_index(), as the set of its rows
GroupByPeriod(frame) ==
    LET keys == [k \in 1..Len(frame) |-> PeriodKey(frame[k])]
    IN  { [RazaoSocial |-> key.RazaoSocial, UF |-> key.UF, Ano |-> key.Ano,
           Trimestre |-> key.Trimestre,
           ValorDespesas |-> SumSeq(ValuesOf(frame, keys, key))] :
          key \in {keys[k] : k \in 1..Len(frame)} }

\* a set of rows in some order, as a frame
RECURSIVE SeqOfSet(_)
SeqOfSet(S) ==
    IF S = {} THEN <<>>
    ELSE LET x == CHOOSE y \in S : TRUE IN <<x>> \o SeqOfSet(S \ {x})

\* line 71: pd.concat(quarter_parts, ignore_index=True)
ConcatParts(parts) == Concat([k \in 1..Len(parts) |-> SeqOfSet(parts[k])])

\* the order groupby gives its keys: numbers, then texts, then missing
KeyRank(k) == IF k.t = "num" THEN 1 ELSE IF k.t = "str" THEN 2 ELSE 3
KeyLess(a, b) ==
    IF KeyRank(a) # KeyRank(b) THEN KeyRank(a) < KeyRank(b)
    ELSE IF a.t = "num" THEN IntOf(a.v) < IntOf(b.v)
    ELSE IF a.t = "str" THEN StrLess(a.v, b.v)
    ELSE FALSE
EntityLess(a, b) ==
    \/ KeyLess(a.RazaoSocial, b.RazaoSocial)
    \/ (a.RazaoSocial = b.RazaoSocial /\ KeyLess(a.UF, b.UF))

RECURSIVE SortEntities(_)
SortEntities(S) ==
    IF S = {} THEN <<>>
    ELSE LET x == CHOOSE y \in S : \A z \in S \ {y} : EntityLess(y, z)
         IN  <<x>> \o SortEntities(S \ {x})

NullStd == [null |-> TRUE, num |-> 0, den |-> 1]

\* the mutated deviation divides by n (ddof = 0): 0 for a single value
std_population(xs) ==
    LET n == Len(xs)
        sq == SumSeq([k \in 1..n |-> xs[k] * xs[k]])
    IN  IF n < 1 THEN NullStd
        ELSE [null |-> FALSE, num |-> n * sq - SumSeq(xs) * SumSeq(xs), den |-> n * n]

\* line 82, 'std': the sample deviation (ddof = 1), given by its square
\* num / den; missing for fewer than two values
std(xs) ==
    LET n == Len(xs)
        sq == SumSeq([k \in 1..n |-> xs[k] * xs[k]])
    IN  IF n < 2 THEN NullStd
        ELSE [null |-> FALSE, num |-> n * sq - SumSeq(xs) * SumSeq(xs),
              den |-> n * (n - 1)]

\* line 82, 'mean': the quotient num / den
mean(xs) == [num |-> SumSeq(xs), den |-> Len(xs)]

\* lines 80-84: groupby([RazaoSocial, UF], dropna=False).agg(sum, mean, std,
\* count).reset_index(), in the order of the keys
GroupByEntity(qs) ==
    LET frame == SeqOfSet(qs)
        rowkeys == [k \in 1..Len(frame) |-> EntityKey(frame[k])]
        keys == SortEntities({rowkeys[k] : k \in 1..Len(frame)})
    IN  [k \in 1..Len(keys) |->
            LET xs == ValuesOf(frame, rowkeys, keys[k])
            IN  [RazaoSocial |-> keys[k].RazaoSocial, UF |-> keys[k].UF,
                 TotalDespesas |-> SumSeq(xs),
                 MediaPorTrimestre |-> mean(xs),
                 DesvioPadraoPorTrimestre |-> std(xs),
                 NumTrimestres |-> Len(xs)]]

Orderings(n) ==
    {p \in [1..n -> 1..n] : \A i, j \in 1..n : i # j => p[i] # p[j]}

\* the mutated sort is ascending
sort_values_ascending(st) ==
    { [k \in 1..Len(st) |-> st[p[k]]] :
      p \in {q \in Orderings(Len(st)) :
                \A k \in 1..(Len(st) - 1) :
                    st[q[k]].TotalDespesas <= st[q[k + 1]].TotalDespesas} }

\* line 87: sort_values('TotalDespesas', ascending=False) with the default
\* kind='quicksort', which is not a stable sort: every arrangement with
\* descending totals is a possible outcome
sort_values(st) ==
    { [k \in 1..Len(st) |-> st[p[k]]] :
      p \in {q \in Orderings(Len(st)) :
                \A k \in 1..(Len(st) - 1) :
                    st[q[k]].TotalDespesas >= st[q[k + 1]].TotalDespesas} }

(***************************************************************************)
(* Inputs of the aggregator: at most MaxAggRows rows                       *)
(***************************************************************************)
MaxAggRows == 3

AggRow(name, tri, val) ==
    [RazaoSocial |-> name, UF |-> <<"S", "P">>, Ano |-> <<"2", "0", "2", "5">>,
     Trimestre |-> tri, ValorDespesas |-> val]

\* three entities, one of them with a name made of digits, two periods
AggRows ==
    {AggRow(name, tri, <<"1">>) : name \in {<<"A">>, <<"B">>, <<"7">>},
                                  tri \in {<<"1">>, <<"2">>}}
    \cup {AggRow(<<"A">>, <<"1">>, <<"2">>), AggRow(<<"7">>, <<"1">>, <<"2">>),
          AggRow(<<"B">>, <<"1">>, <<"3">>), AggRow(<<"A">>, <<"1">>, NaN)}

Validated(exists, hasUF, rows) == [exists |-> exists, hasUF |-> hasUF, rows |-> rows]

AggInputs ==
    {Validated(TRUE, hasUF, rows) : hasUF \in BOOLEAN,
                                    rows \in RowSeqs(AggRows, MaxAggRows)}
    \cup {Validated(FALSE, FALSE, <<>>)}

IdleAgg ==
    /\ aIn = Validated(FALSE, FALSE, <<>>)
    /\ chunksize = 1 /\ aPos = 0
    /\ quarter_parts = <<>> /\ quarters = {} /\ stats = <<>>
    /\ aOut = Absent /\ aPc = "off"

(***************************************************************************)
(* executar_enriquecimento_total  (04_enriquecer_dados.py:47-124)          *)
(*                                                                         *)
(* It reads the consolidated file (vIn), not the validated one, and writes *)
(* data/processed/dados_validados.csv (vOut).  The registry is given as    *)
(* the frame lines 57-102 make of the download: [state, hasCols, rows];    *)
(* state is "raises" when the download or its parsing raises, hasCols      *)
(* tells whether CNPJ, MODALIDADE and UF are among its columns, a row is   *)
(* [RegistroANS, CNPJ, RazaoSocial, MODALIDADE, UF] with RegistroANS       *)
(* already reduced to its digits (line 89).                                *)
(***************************************************************************)
Registry(state, hasCols, rows) == [state |-> state, hasCols |-> hasCols, rows |-> rows]

RegistryRow(reg, cnpj, razao, modalidade, uf) ==
    [RegistroANS |-> reg, CNPJ |-> cnpj, RazaoSocial |-> razao,
     MODALIDADE |-> modalidade, UF |-> uf]

\* line 54: astype(str).str.replace(r'\D', '') of the key column
DigitsOfKey(cell, column) ==
    LET str == KeyAsStr(cell, column)
    IN  SelectSeqIdx(str, {i \in 1..Len(str) : IsDigit(str[i])}, 1)

EnrichedLine(src, row, key, cnpj, razao, modalidade, uf) ==
    [src |-> src, CNPJ |-> cnpj, RazaoSocial |-> razao, Trimestre |-> row.Trimestre,
     Ano |-> row.Ano, ValorDespesas |-> row.ValorDespesas, RegistroANS |-> key,
     Modalidade |-> modalidade, UF |-> uf]

\* lines 107-121 for row i of the consolidated file: a left merge, one line
\* per matching registry row, one line with missing fields when none matches
LinesOfRow(inp, reg, i) ==
    LET row == inp.rows[i]
        keycol == [k \in 1..Len(inp.rows) |-> inp.rows[k].RegistroANS]
        key == DigitsOfKey(row.RegistroANS, keycol)
        hits == SelectSeqIdx(reg.rows,
                    {k \in 1..Len(reg.rows) : reg.rows[k].RegistroANS = key}, 1)
    IN  IF Len(hits) = 0
        THEN <<EnrichedLine(i, row, key, NaN, NaN, NaN, NaN)>>
        ELSE [k \in 1..Len(hits) |->
                EnrichedLine(i, row, key, hits[k].CNPJ, hits[k].RazaoSocial,
                             hits[k].MODALIDADE, hits[k].UF)]

Enrich(inp, reg) == Concat([i \in 1..Len(inp.rows) |-> LinesOfRow(inp, reg, i)])

(***************************************************************************)
(* Inputs of validate-then-enrich: at most MaxPipeRows rows                *)
(***************************************************************************)
MaxPipeRows == 2

PipeInputs ==
    {Consolidated("ok", TRUE, rows) : rows \in RowSeqs(InRows, MaxPipeRows)}
    \cup {Consolidated("missing", TRUE, <<>>), Consolidated("unreadable", TRUE, <<>>),
          Consolidated("ok", FALSE, <<InRow(<<"7">>, NaN)>>)}

PipeMappings ==
    { Mapping("absent", FALSE, FALSE, <<>>),
      Mapping("ok", TRUE, TRUE, <<MapRow(<<"7">>, Cnpj14, <<"A">>)>>) }

Registries ==
    { Registry("raises", FALSE, <<>>),
      Registry("ok", FALSE, <<>>),
      Registry("ok", TRUE,
               <<RegistryRow(<<"7">>, Cnpj14, <<"A">>, <<"M">>, <<"S", "P">>)>>),
      Registry("ok", TRUE,
               <<RegistryRow(<<"7", "0">>, Cnpj14, <<"B">>, <<"M">>, <<"R", "J">>),
                 RegistryRow(<<"7">>, NaN, <<"A">>, <<"M">>, <<"S", "P">>),
                 RegistryRow(<<"7">>, Cnpj14, <<"C">>, NaN, NaN)>>) }

IdleEnr == cadastro = Registry("raises", FALSE, <<>>) /\ ePc = "off"

IdleName == nmName = <<>> /\ nmPc = "off"
IdleRead == rdFile = File(PathCsv, <<>>, NoTable)
            /\ rdOut = NoTable /\ rdPc = "off"

ReadInit ==
    /\ rdFile \in ReadFiles
    /\ rdOut = NoTable
    /\ rdPc = "start"
    /\ IdleName /\ IdlePeriod /\ IdleWalk /\ IdleVal /\ IdleAgg /\ IdleEnr

\* one call of _try_read_table
ReadTable ==
    /\ rdPc = "start"
    /\ rdOut' = _try_read_table(rdFile)
    /\ rdPc' = "done"
    /\ UNCHANGED <<rdFile, nameVars, periodVars, walkVars, valVars, aggVars, enrVars>>

ReadNext == ReadTable

SpecRead == ReadInit /\ [][ReadNext]_vars

NameInit ==
    /\ nmName \in ArchiveNames
    /\ nmPc = "start"
    /\ IdlePeriod /\ IdleRead /\ IdleWalk /\ IdleVal /\ IdleAgg /\ IdleEnr

\* lines 162-164 on one archive name
ExtractPeriod ==
    /\ nmPc = "start"
    /\ ano' = AnoOf(nmName)
    /\ trimestre' = TrimestreOf(nmName)
    /\ nmPc' = "done"
    /\ UNCHANGED <<nmName, readVars, walkVars, valVars, aggVars, enrVars>>

NameNext == ExtractPeriod

SpecName == NameInit /\ [][NameNext]_vars

(***************************************************************************)
(* The walker.  A run starts from "idle"; between runs the contents of     *)
(* data/raw may change.                                                    *)
(***************************************************************************)
WalkInit ==
    /\ rawDir = {}
    /\ CSV_FINAL = Absent
    /\ pc = "idle"
    /\ arquivos_zip = <<>> /\ zi = 0 /\ files = <<>> /\ fi = 0
    /\ primeira_escrita = TRUE
    /\ scratch = {}
    /\ staleCount = 0 /\ failed = {} /\ appended = {}
    /\ last = NoRun /\ repeated = FALSE /\ sameStore = FALSE
    /\ IdlePeriod /\ IdleName /\ IdleRead /\ IdleVal /\ IdleAgg /\ IdleEnr

\* the locals of processar_arquivos are gone once it has returned or raised
Returned(outcome) ==
    /\ pc' = "idle"
    /\ arquivos_zip' = <<>> /\ zi' = 0 /\ files' = <<>> /\ fi' = 0
    /\ primeira_escrita' = TRUE
    /\ ano' = NA /\ trimestre' = NA
    /\ failed' = {} /\ appended' = {}
    /\ repeated' = (last.valid /\ last.dir = rawDir /\ last.failed = failed)
    /\ sameStore' = (last.valid /\ last.store = CSV_FINAL')
    /\ last' = RunRecord(outcome, rawDir, failed, appended, CSV_FINAL')

\* somebody adds archives to or removes archives from data/raw
ChangeRawDir ==
    /\ pc = "idle"
    /\ \E d \in SUBSET ArchiveIds : d # rawDir /\ rawDir' = d
    /\ UNCHANGED <<CSV_FINAL, pc, arquivos_zip, zi, files, fi, primeira_escrita,
                   scratch, staleCount, failed, appended, last, repeated, sameStore,
                   periodVars, nameVars, readVars, valVars, aggVars, enrVars>>

\* lines 149-152: no archive, return
RunNoZip ==
    /\ pc = "idle"
    /\ SortedArchives(rawDir) = <<>>
    /\ CSV_FINAL' = CSV_FINAL
    /\ staleCount' = Len(CSV_FINAL.lines)
    /\ Returned("nozip")
    /\ UNCHANGED <<rawDir, scratch, nameVars, readVars, valVars, aggVars, enrVars>>

\* lines 149-158: archives found, previous output removed
StartRun ==
    /\ pc = "idle"
    /\ SortedArchives(rawDir) # <<>>
    /\ arquivos_zip' = SortedArchives(rawDir)
    /\ CSV_FINAL' = unlink_previous(CSV_FINAL)
    /\ staleCount' = Len(CSV_FINAL'.lines)
    /\ primeira_escrita' = TRUE
    /\ zi' = 1
    /\ pc' = "zip"
    /\ failed' = {} /\ appended' = {}
    /\ UNCHANGED <<rawDir, files, fi, scratch, last, repeated, sameStore, periodVars,
                   nameVars, readVars, valVars, aggVars, enrVars>>

\* lines 160-166: next archive, period from its name, scratch directory made
EnterArchive ==
    /\ pc = "zip"
    /\ zi <= Len(arquivos_zip)
    /\ ano' = AnoOf(Catalogue[arquivos_zip[zi]].name)
    /\ trimestre' = TrimestreOf(Catalogue[arquivos_zip[zi]].name)
    /\ scratch' = scratch \cup {arquivos_zip[zi]}
    /\ pc' = "extract"
    /\ UNCHANGED <<rawDir, CSV_FINAL, arquivos_zip, zi, files, fi,
                   primeira_escrita, staleCount, failed, appended, last, repeated, sameStore,
                   nameVars, readVars, valVars, aggVars, enrVars>>

\* lines 167-172: extraction raises, the archive is skipped (the with block
\* is left, which removes the scratch directory)
ExtractFails ==
    /\ pc = "extract"
    /\ Catalogue[arquivos_zip[zi]].corrupt
    /\ scratch' = cleanup(scratch, arquivos_zip[zi])
    /\ zi' = zi + 1
    /\ pc' = "zip"
    /\ UNCHANGED <<rawDir, CSV_FINAL, arquivos_zip, files, fi, primeira_escrita,
                   staleCount, failed, appended, last, repeated, sameStore, periodVars,
                   nameVars, readVars, valVars, aggVars, enrVars>>

\* lines 167-169, 175-176: extracted, the file loop starts
ExtractOk ==
    /\ pc = "extract"
    /\ ~Catalogue[arquivos_zip[zi]].corrupt
    /\ files' = Catalogue[arquivos_zip[zi]].files
    /\ fi' = 1
    /\ pc' = "file"
    /\ UNCHANGED <<rawDir, CSV_FINAL, arquivos_zip, zi, primeira_escrita, scratch,
                   staleCount, failed, appended, last, repeated, sameStore, periodVars,
                   nameVars, readVars, valVars, aggVars, enrVars>>

\* line 182: df = _try_read_table(fpath), worked out once for each file of
\* the catalogue
CatalogueFiles ==
    UNION {{Catalogue[a].files[i] : i \in 1..Len(Catalogue[a].files)} : a \in ArchiveIds}

TablesRead == [f \in CatalogueFiles |-> _try_read_table(f)]

ReadTableOf(file) == TablesRead[file]

\* what lines 177-194 make of one file:
\*   "skip"   one of the four `continue`s
\*   "raise"  an exception leaves the loop body (no handler around it)
\*   "rows"   dfn is there
FileVerdict(file) ==
    IF IsMacosx(file) THEN "skip"
    ELSE LET df == ReadTableOf(file)
         IN  IF ~df.ok THEN "skip"
             ELSE IF LabelsRaise(df) THEN "raise"
             ELSE IF ~_is_expense_table(df) THEN "skip"
             ELSE IF ~_normalize_and_extract(df, ano, trimestre).ok THEN "skip"
             ELSE "rows"

FileRows(file) == _normalize_and_extract(ReadTableOf(file), ano, trimestre).rows

\* lines 176-194: the file is skipped
SkipFile ==
    /\ pc = "file"
    /\ fi <= Len(files)
    /\ FileVerdict(files[fi]) = "skip"
    /\ fi' = fi + 1
    /\ UNCHANGED <<rawDir, CSV_FINAL, pc, arquivos_zip, zi, files,
                   primeira_escrita, scratch, staleCount, failed, appended, last,
                   repeated, sameStore, periodVars, nameVars, readVars, valVars, aggVars, enrVars>>

\* lines 176-199: the rows of the file are appended
AppendFile ==
    /\ pc = "file"
    /\ fi <= Len(files)
    /\ FileVerdict(files[fi]) = "rows"
    /\ CSV_FINAL' = to_csv_append(CSV_FINAL, FileRows(files[fi]), primeira_escrita)
    /\ primeira_escrita' = FALSE
    /\ appended' = appended \cup {<<arquivos_zip[zi], fi>>}
    /\ fi' = fi + 1
    /\ UNCHANGED <<rawDir, pc, arquivos_zip, zi, files, scratch, staleCount,
                   failed, last, repeated, sameStore, periodVars, nameVars, readVars, valVars, aggVars, enrVars>>

\* lines 176-198, 201-202: to_csv raises (the store cannot be opened or
\* written), nothing is appended and primeira_escrita keeps its value
AppendFails ==
    /\ pc = "file"
    /\ fi <= Len(files)
    /\ FileVerdict(files[fi]) = "rows"
    /\ failed' = failed \cup {<<arquivos_zip[zi], fi>>}
    /\ fi' = fi + 1
    /\ UNCHANGED <<rawDir, CSV_FINAL, pc, arquivos_zip, zi, files,
                   primeira_escrita, scratch, staleCount, appended, last, repeated, sameStore,
                   periodVars, nameVars, readVars, valVars, aggVars, enrVars>>

\* lines 176-191: an exception that no handler of processar_arquivos catches;
\* the with block removes the scratch directory and the run ends raising
FileRaises ==
    /\ pc = "file"
    /\ fi <= Len(files)
    /\ FileVerdict(files[fi]) = "raise"
    /\ scratch' = cleanup(scratch, arquivos_zip[zi])
    /\ CSV_FINAL' = CSV_FINAL
    /\ Returned("raised")
    /\ UNCHANGED <<rawDir, staleCount, nameVars, readVars, valVars, aggVars, enrVars>>

\* end of the with block of line 166: scratch directory removed, next archive
LeaveArchive ==
    /\ pc = "file"
    /\ fi > Len(files)
    /\ scratch' = cleanup(scratch, arquivos_zip[zi])
    /\ zi' = zi + 1
    /\ pc' = "zip"
    /\ UNCHANGED <<rawDir, CSV_FINAL, arquivos_zip, files, fi, primeira_escrita,
                   staleCount, failed, appended, last, repeated, sameStore, periodVars,
                   nameVars, readVars, valVars, aggVars, enrVars>>

\* lines 204-207: all archives done, return
FinishRun ==
    /\ pc = "zip"
    /\ zi > Len(arquivos_zip)
    /\ CSV_FINAL' = CSV_FINAL
    /\ Returned("returned")
    /\ UNCHANGED <<rawDir, scratch, staleCount, nameVars, readVars, valVars, aggVars, enrVars>>

Next ==
    \/ ChangeRawDir
    \/ RunNoZip
    \/ StartRun
    \/ EnterArchive
    \/ ExtractFails
    \/ ExtractOk
    \/ SkipFile
    \/ AppendFile
    \/ AppendFails
    \/ FileRaises
    \/ LeaveArchive
    \/ FinishRun

Spec == WalkInit /\ [][Next]_vars

(***************************************************************************)
(* The validator: one call of executar_validacao                           *)
(***************************************************************************)
ValInit ==
    /\ vIn \in ValInputs
    /\ vMap \in Mappings
    /\ vDf = <<>>
    /\ vOut \in {Absent, StaleOutput}
    /\ vPc = "start"
    /\ IdleName /\ IdlePeriod /\ IdleRead /\ IdleWalk /\ IdleAgg /\ IdleEnr

\* lines 39-46: the consolidated file cannot be read, return
ValInputUnread ==
    /\ vPc = "start"
    /\ vIn.state # "ok"
    /\ vPc' = IF vIn.state = "missing" THEN "noinput" ELSE "badinput"
    /\ UNCHANGED <<vIn, vMap, vDf, vOut, nameVars, periodVars, readVars, walkVars, aggVars, enrVars>>

\* lines 39-92: no ValorDespesas column, return
ValNoValueColumn ==
    /\ vPc = "start"
    /\ vIn.state = "ok"
    /\ ~vIn.hasValor
    /\ vDf' = BuildDf(vIn, vMap)
    /\ vPc' = "novalue"
    /\ UNCHANGED <<vIn, vMap, vOut, nameVars, periodVars, readVars, walkVars, aggVars, enrVars>>

\* lines 39-113: validated rows written (mode 'w')
ValSave ==
    /\ vPc = "start"
    /\ vIn.state = "ok"
    /\ vIn.hasValor
    /\ vDf' = BuildDf(vIn, vMap)
    /\ vOut' = Store(TRUE, FilterPositive(vDf'))
    /\ vPc' = "saved"
    /\ UNCHANGED <<vIn, vMap, nameVars, periodVars, readVars, walkVars, aggVars, enrVars>>

\* lines 39-112, 114-115: to_csv raises, the message is printed
ValSaveFails ==
    /\ vPc = "start"
    /\ vIn.state = "ok"
    /\ vIn.hasValor
    /\ vDf' = BuildDf(vIn, vMap)
    /\ vPc' = "savefailed"
    /\ UNCHANGED <<vIn, vMap, vOut, nameVars, periodVars, readVars, walkVars, aggVars, enrVars>>

ValNext == ValInputUnread \/ ValNoValueColumn \/ ValSave \/ ValSaveFails

SpecVal == ValInit /\ [][ValNext]_vars

(***************************************************************************)
(* The aggregator: one call of executar_agregacao(chunksize)               *)
(***************************************************************************)
AggInit ==
    /\ aIn \in AggInputs
    /\ chunksize \in 1..MaxAggRows
    /\ aPos = 0
    /\ quarter_parts = <<>> /\ quarters = {} /\ stats = <<>>
    /\ aOut = Absent
    /\ aPc = "start"
    /\ IdleName /\ IdlePeriod /\ IdleRead /\ IdleWalk /\ IdleVal /\ IdleEnr

\* lines 37-39: no input file, return
AggNoInput ==
    /\ aPc = "start"
    /\ ~aIn.exists
    /\ aPc' = "noinput"
    /\ UNCHANGED <<aIn, chunksize, aPos, quarter_parts, quarters, stats, aOut,
                   nameVars, periodVars, readVars, walkVars, valVars, enrVars>>

\* lines 51-65: one turn of the loop over the reader.  A file with a header
\* and no data row gives one empty chunk, so the return of lines 67-69 (no
\* chunk at all) is not taken; a file without a header raises (AggRaises).
ReadChunk ==
    /\ aPc \in {"start", "reading"}
    /\ aIn.exists
    /\ aPos < Len(aIn.rows) \/ quarter_parts = <<>>
    /\ LET stop == Min({aPos + chunksize, Len(aIn.rows)})
       IN  /\ quarter_parts' =
                 Append(quarter_parts, GroupByPeriod(ChunkFrame(aIn, aPos + 1, stop)))
           /\ aPos' = stop
    /\ aPc' = "reading"
    /\ UNCHANGED <<aIn, chunksize, quarters, stats, aOut,
                   nameVars, periodVars, readVars, walkVars, valVars, enrVars>>

\* lines 71-91: the reader is exhausted; regroup, aggregate, sort, save
Aggregate ==
    /\ aPc = "reading"
    /\ aPos = Len(aIn.rows)
    /\ quarters' = GroupByPeriod(ConcatParts(quarter_parts))
    /\ stats' = GroupByEntity(quarters')
    /\ \E sorted \in sort_values(stats') : aOut' = Store(TRUE, sorted)
    /\ aPc' = "done"
    /\ UNCHANGED <<aIn, chunksize, aPos, quarter_parts,
                   nameVars, periodVars, readVars, walkVars, valVars, enrVars>>

\* lines 93-94: an exception of the reader or of to_csv is printed
AggRaises ==
    /\ aPc \in {"start", "reading"}
    /\ aIn.exists
    /\ aPc' = "failed"
    /\ UNCHANGED <<aIn, chunksize, aPos, quarter_parts, quarters, stats, aOut,
                   nameVars, periodVars, readVars, walkVars, valVars, enrVars>>

AggNext == AggNoInput \/ ReadChunk \/ Aggregate \/ AggRaises

SpecAgg == AggInit /\ [][AggNext]_vars

(***************************************************************************)
(* Validate, then enrich: 03_validar_dados.py followed by                  *)
(* 04_enriquecer_dados.py, as scripts/run_1_to_4.py runs them              *)
(***************************************************************************)
PipeInit ==
    /\ vIn \in PipeInputs
    /\ vMap \in PipeMappings
    /\ vDf = <<>>
    /\ vOut \in {Absent, StaleOutput}
    /\ vPc = "start"
    /\ cadastro \in Registries
    /\ ePc = "start"
    /\ IdleName /\ IdlePeriod /\ IdleRead /\ IdleWalk /\ IdleAgg

\* the validator has returned
Validated03 == vPc \in {"noinput", "badinput", "novalue", "saved", "savefailed"}

\* line 51: pd.read_csv(INPUT_RAW) raises (no file, or not a table); no
\* handler, the exception leaves the function
EnrInputRaises ==
    /\ ePc = "start" /\ Validated03
    /\ vIn.state # "ok"
    /\ ePc' = "raised"
    /\ UNCHANGED <<cadastro, nameVars, periodVars, readVars, walkVars, valVars, aggVars>>

\* lines 51-109: the download or its parsing raises, or a column the merge
\* selects is not there (KeyError); no handler
EnrMergeRaises ==
    /\ ePc = "start" /\ Validated03
    /\ vIn.state = "ok"
    /\ cadastro.state = "raises" \/ ~cadastro.hasCols \/ ~vIn.hasValor
    /\ ePc' = "raised"
    /\ UNCHANGED <<cadastro, nameVars, periodVars, readVars, walkVars, valVars, aggVars>>

\* lines 51-124: every row of the consolidated file, enriched, replaces the
\* validated file
EnrSave ==
    /\ ePc = "start" /\ Validated03
    /\ vIn.state = "ok" /\ vIn.hasValor
    /\ cadastro.state = "ok" /\ cadastro.hasCols
    /\ vOut' = Store(TRUE, Enrich(vIn, cadastro))
    /\ ePc' = "saved"
    /\ UNCHANGED <<cadastro, vIn, vMap, vDf, vPc, nameVars, periodVars, readVars,
                   walkVars, aggVars>>

\* lines 51-121: to_csv raises; no handler
EnrSaveRaises ==
    /\ ePc = "start" /\ Validated03
    /\ vIn.state = "ok" /\ vIn.hasValor
    /\ cadastro.state = "ok" /\ cadastro.hasCols
    /\ ePc' = "raised"
    /\ UNCHANGED <<cadastro, nameVars, periodVars, readVars, walkVars, valVars, aggVars>>

PipeNext ==
    \/ ValNext
    \/ EnrInputRaises
    \/ EnrMergeRaises
    \/ EnrSave
    \/ EnrSaveRaises

SpecPipe == PipeInit /\ [][PipeNext]_vars

(***************************************************************************)
(* Properties                                                              *)
(***************************************************************************)
IsPrefix(a, b) == Len(a) <= Len(b) /\ SubSeq(b, 1, Len(a)) = a

\* C1: two runs in succession over the same archives (and with the same
\* appends refused by the file system) leave the consolidated store with the
\* same content: the second run does not add to what the first wrote.
C1_IdempotentRerun == (pc = "idle" /\ repeated) => sameStore

\* a second run over archives that yield rows, the store holding them once
C1_Witness ==
    /\ pc = "idle" /\ repeated /\ sameStore
    /\ last.outcome = "returned"
    /\ Cardinality(last.appended) >= 2
    /\ Len(CSV_FINAL.lines) > 2

\* C4: the period of "1T2025_despesas.zip" is 2025/1, of
\* "202503_relatorio.zip" (six digits YYYYMM, rule 3) 2025/1, and of
\* "relatorio.zip" the sentinel "N/A" for both fields.
C4_PeriodExtraction ==
    nmPc = "done" =>
        /\ (nmName = Name1T2025 =>
                ano = <<"2", "0", "2", "5">> /\ trimestre = <<"1">>)
        /\ (nmName = Name202503 =>
                ano = <<"2", "0", "2", "5">> /\ trimestre = <<"1">>)
        /\ (nmName = NameRelatorio => ano = NA /\ trimestre = NA)

\* C5: for a file that is not a spreadsheet the reader returns the table of
\* the first pair, in the order utf-8, latin-1, cp1252 by ";", ",", tab, "|",
\* whose parse succeeds with more than one column, and None exactly when
\* there is no such pair; a one-column parse never ends the search.
ClaimedOrder ==
    << <<"utf-8", ";">>, <<"utf-8", ",">>, <<"utf-8", "\t">>, <<"utf-8", "|">>,
       <<"latin-1", ";">>, <<"latin-1", ",">>, <<"latin-1", "\t">>,
       <<"latin-1", "|">>,
       <<"cp1252", ";">>, <<"cp1252", ",">>, <<"cp1252", "\t">>,
       <<"cp1252", "|">> >>

ParseAt(bytes, k) == read_csv(bytes, ClaimedOrder[k][2], ClaimedOrder[k][1])

ManyColumns(bytes) ==
    {k \in 1..Len(ClaimedOrder) :
        ParseAt(bytes, k).ok /\ Len(ParseAt(bytes, k).columns) > 1}

IsSpreadsheet(file) ==
    Lower(PathSuffix(file.path))
        \in {<<".", "x", "l", "s">>, <<".", "x", "l", "s", "x">>}

C5_FirstManyColumnPair ==
    (rdPc = "done" /\ ~IsSpreadsheet(rdFile)) =>
        LET good == ManyColumns(rdFile.bytes)
        IN  IF good = {} THEN rdOut = NoTable
            ELSE rdOut = ParseAt(rdFile.bytes, Min(good))

\* the first pair parses the file into one column and the search goes on to
\* the pair that yields two
C5_Witness ==
    /\ rdPc = "done" /\ ~IsSpreadsheet(rdFile)
    /\ ParseAt(rdFile.bytes, 1).ok
    /\ Len(ParseAt(rdFile.bytes, 1).columns) = 1
    /\ rdOut.ok
    /\ rdOut = ParseAt(rdFile.bytes, 2)

\* C8: within a run the store gets the header once, as the first line of the
\* first successful append, and every later successful append adds data rows
\* after the lines already there.
HeaderOnce ==
    pc \in {"zip", "extract", "file"} =>
        LET L == CSV_FINAL.lines
        IN  /\ (appended = {} => L = <<>>)
            /\ (appended # {} =>
                    /\ L # <<>>
                    /\ L[1] = HeaderLine
                    /\ \A i \in 2..Len(L) : L[i].kind = "row")

AppendOnly ==
    pc \in {"zip", "extract", "file"} =>
        LET L == CSV_FINAL.lines
            M == CSV_FINAL'.lines
        IN  IF pc' = "idle" \/ appended' = appended THEN M = L
            ELSE /\ IsPrefix(L, M)
                 /\ Len(M) > Len(L) + (IF appended = {} THEN 1 ELSE 0)
                 /\ (appended = {} => M[Len(L) + 1] = HeaderLine)
                 /\ (appended # {} =>
                         \A i \in (Len(L) + 1)..Len(M) : M[i].kind = "row")

C8_HeaderOnceAppendOnly == [][HeaderOnce /\ AppendOnly]_vars

\* the first append of the run was refused, two later ones went through
C8_Witness ==
    /\ pc \in {"zip", "extract", "file"}
    /\ <<3, 1>> \in failed
    /\ Cardinality(appended) >= 2
    /\ CSV_FINAL.lines[1] = HeaderLine

\* C9: no failure while an archive or a file is handled ends the run: the
\* run returns, and every file that yields rows, in every archive that can
\* be extracted, has been appended (unless its own append was refused).
YieldsRows(a, i) == FileVerdict(Catalogue[a].files[i]) = "rows"

C9_FailureNeverAborts ==
    (pc = "idle" /\ last.valid /\ last.outcome # "nozip") =>
        /\ last.outcome = "returned"
        /\ \A a \in last.dir :
              ~Catalogue[a].corrupt =>
                  \A i \in 1..Len(Catalogue[a].files) :
                      (YieldsRows(a, i) /\ <<a, i>> \notin last.failed)
                          => <<a, i>> \in last.appended

\* C10 as claimed: after every run, also one that found no archive, the
\* store holds no line of an earlier run.
C10_EveryRunClears == (pc = "idle" /\ last.valid) => staleCount = 0

\* C10 as amended: a run that finds at least one archive removes the previous
\* output before it processes anything, so no line of an earlier run is ever
\* in the store during or after it; a run that finds no archive returns
\* before the removal and leaves the store as it was.
C10_RunWithArchivesClears ==
    /\ (pc \in {"zip", "extract", "file"} => staleCount = 0)
    /\ (pc = "idle" /\ last.valid /\ last.dir # {} => staleCount = 0)
    /\ (pc = "idle" /\ last.valid /\ last.dir = {} =>
            staleCount = Len(CSV_FINAL.lines))

\* a run with archives that followed a run which had left the same lines
C10_Witness ==
    /\ pc = "idle" /\ last.valid /\ last.dir # {}
    /\ repeated /\ sameStore
    /\ Len(CSV_FINAL.lines) > 0
    /\ staleCount = 0

\* the lines of the validated file that stem from input row i
LinesOf(i) == {k \in 1..Len(vOut.lines) : vOut.lines[k].src = i}

\* the mapping rows the left merge pairs with input row i
MatchesOf(i) ==
    LET keycol == [k \in 1..Len(vIn.rows) |-> vIn.rows[k].RegistroANS]
        key == KeyAsStr(vIn.rows[i].RegistroANS, keycol)
    IN  {k \in 1..Len(vMap.rows) : vMap.rows[k].RegistroANS = key}

\* the value of input row i is a number above zero
ValueAboveZero(i) ==
    LET cell == vIn.rows[i].ValorDespesas
    IN  cell # NaN /\ to_numeric(cell).ok /\ to_numeric(cell).m > 0

\* C3: the validated file holds the input rows whose ValorDespesas is a
\* number strictly above 0 and only those: a row with a missing, unparseable,
\* zero or negative value has no line, every other row has one whatever its
\* CNPJ and RazaoSocial are (one line per mapping row the left merge pairs it
\* with, a single line when none or one does), in the order of the input and
\* with its period and value.
C3_OnlyPositiveValuesSurvive ==
    vPc = "saved" =>
        /\ vOut.exists
        /\ \A i \in 1..Len(vIn.rows) :
              /\ ValueAboveZero(i) <=> LinesOf(i) # {}
              /\ ValueAboveZero(i) =>
                    Cardinality(LinesOf(i)) =
                        IF Merges(vMap) /\ MatchesOf(i) # {}
                        THEN Cardinality(MatchesOf(i)) ELSE 1
        /\ \A k \in 1..Len(vOut.lines) :
              LET l == vOut.lines[k]
              IN  /\ l.src \in 1..Len(vIn.rows)
                  /\ l.Trimestre = vIn.rows[l.src].Trimestre
                  /\ l.Ano = vIn.rows[l.src].Ano
                  /\ l.ValorDespesas = to_numeric(vIn.rows[l.src].ValorDespesas)
                  /\ k > 1 => vOut.lines[k - 1].src <= l.src

\* three rows of which one has a value above zero; it is kept with the
\* malformed CNPJ "123" and no RazaoSocial, the two others are gone
C3_Witness ==
    /\ vPc = "saved"
    /\ Len(vIn.rows) = 3
    /\ Len(vOut.lines) = 1
    /\ vOut.lines[1].CNPJ = <<"1", "2", "3">>
    /\ vOut.lines[1].RazaoSocial = NaN
    /\ \E k \in 1..Len(vDf) : vDf[k].src = vOut.lines[1].src /\ ~vDf[k].CNPJ_Valido
    /\ \E i, j \in 1..3 :
          /\ vIn.rows[i].ValorDespesas = <<"0">>
          /\ vIn.rows[j].ValorDespesas = <<"-", "5">>

\* the rows of the validated file that belong to an output line: those with
\* the RazaoSocial and UF the line shows
RowsOfLine(l) ==
    LET shows(key, cell) == IF key.t = "nan" THEN cell = NaN ELSE cell = key.v
    IN  {k \in 1..Len(aIn.rows) :
            /\ shows(l.RazaoSocial, aIn.rows[k].RazaoSocial)
            /\ aIn.hasUF => shows(l.UF, aIn.rows[k].UF)}

RECURSIVE SumOver(_, _)
SumOver(S, f) ==
    IF S = {} THEN 0
    ELSE LET x == CHOOSE y \in S : TRUE IN f[x] + SumOver(S \ {x}, f)

AmountOf == [k \in 1..Len(aIn.rows) |-> fillna_zero(CoerceValue(aIn.rows[k].ValorDespesas))]

\* a line as to_csv writes it: a number and a text made of the same digits
\* read the same, a missing key is an empty field
Shown(l) ==
    [l EXCEPT !.RazaoSocial = IF @.t = "nan" THEN <<>> ELSE @.v,
              !.UF = IF @.t = "nan" THEN <<>> ELSE @.v]

\* what one chunk holding the whole file gives
WholeStats ==
    GroupByEntity(GroupByPeriod(ChunkFrame(aIn, 1, Len(aIn.rows))))

\* C2: whatever the chunk size, every line of the aggregated output has as
\* TotalDespesas the sum of ValorDespesas over all rows of its (RazaoSocial,
\* UF) in the file and as NumTrimestres the number of distinct (Ano,
\* Trimestre) of these rows, every row belongs to a line, and the lines are
\* those of the aggregation of the file in one chunk.
C2_ChunkedEqualsWhole ==
    aPc = "done" =>
        /\ \A k \in 1..Len(aOut.lines) :
              LET l == aOut.lines[k]
              IN  /\ l.TotalDespesas = SumOver(RowsOfLine(l), AmountOf)
                  /\ l.NumTrimestres =
                         Cardinality({<<aIn.rows[i].Ano, aIn.rows[i].Trimestre>> :
                                         i \in RowsOfLine(l)})
        /\ \A i \in 1..Len(aIn.rows) :
              \E k \in 1..Len(aOut.lines) : i \in RowsOfLine(aOut.lines[k])
        /\ Len(aOut.lines) = Len(WholeStats)
        /\ {Shown(aOut.lines[k]) : k \in 1..Len(aOut.lines)}
               = {Shown(WholeStats[k]) : k \in 1..Len(WholeStats)}

\* no RazaoSocial of the file is made of digits
TextNames ==
    \A i \in 1..Len(aIn.rows) :
        \E k \in 1..Len(aIn.rows[i].RazaoSocial) :
            ~IsDigit(aIn.rows[i].RazaoSocial[k])

\* the same for the files in which every RazaoSocial is a text
C2_ChunkedEqualsWholeOnTextNames == TextNames => C2_ChunkedEqualsWhole

\* a period is split over two chunks and summed up again
C2_Witness ==
    /\ aPc = "done" /\ TextNames
    /\ Len(quarter_parts) >= 2
    /\ \E q1 \in quarter_parts[1], q2 \in quarter_parts[2] : PeriodKey(q1) = PeriodKey(q2)

DescendingTotals ==
    \A k \in 1..(Len(aOut.lines) - 1) :
        aOut.lines[k].TotalDespesas >= aOut.lines[k + 1].TotalDespesas

PlaceInStats(l) == CHOOSE k \in 1..Len(stats) : stats[k] = l

\* C6: the lines of the aggregated output have descending TotalDespesas, and
\* lines with equal TotalDespesas are in the order they had before the sort.
C6_DescendingStable ==
    aPc = "done" =>
        /\ DescendingTotals
        /\ \A i, j \in 1..Len(aOut.lines) :
              (i < j /\ aOut.lines[i].TotalDespesas = aOut.lines[j].TotalDespesas)
                  => PlaceInStats(aOut.lines[i]) < PlaceInStats(aOut.lines[j])

\* C6 (amended): the lines of the aggregated output are the rows of stats
\* with descending TotalDespesas; the order of lines with equal TotalDespesas
\* is not determined.
C6_Descending ==
    aPc = "done" =>
        /\ DescendingTotals
        /\ Len(aOut.lines) = Len(stats)
        /\ {aOut.lines[k] : k \in 1..Len(aOut.lines)} = {stats[k] : k \in 1..Len(stats)}

\* three entities with totals 1, 2, 3 before the sort come out as 3, 2, 1
C6_Witness ==
    /\ aPc = "done"
    /\ Len(stats) = 3
    /\ [k \in 1..3 |-> stats[k].TotalDespesas] = <<1, 2, 3>>
    /\ [k \in 1..3 |-> aOut.lines[k].TotalDespesas] = <<3, 2, 1>>

\* the period sums that contribute to an output line
PeriodsOfLine(l) == {q \in quarters : EntityKey(q) = EntityKey(l)}

\* C7: an output line with exactly one contributing period has NumTrimestres
\* 1, no DesvioPadraoPorTrimestre (missing, not 0), and both TotalDespesas
\* and MediaPorTrimestre equal to the sum of that period; the aggregation
\* ends with the file written.
C7_SinglePeriodGroup ==
    aPc = "done" =>
        /\ aOut.exists
        /\ \A k \in 1..Len(aOut.lines) :
              LET l == aOut.lines[k]
              IN  Cardinality(PeriodsOfLine(l)) = 1 =>
                      /\ l.NumTrimestres = 1
                      /\ l.DesvioPadraoPorTrimestre.null
                      /\ \A q \in PeriodsOfLine(l) :
                            /\ l.TotalDespesas = q.ValorDespesas
                            /\ l.MediaPorTrimestre.num
                                   = q.ValorDespesas * l.MediaPorTrimestre.den

\* one entity with a single period next to one with two periods
C7_Witness ==
    /\ aPc = "done"
    /\ \E i, j \in 1..Len(aOut.lines) :
          /\ aOut.lines[i].NumTrimestres = 1
          /\ aOut.lines[i].DesvioPadraoPorTrimestre.null
          /\ aOut.lines[i].TotalDespesas > 0
          /\ aOut.lines[j].NumTrimestres = 2
          /\ ~aOut.lines[j].DesvioPadraoPorTrimestre.null

\* C13: a failed append to the consolidated store ends the run: once an
\* append of the run has failed, the only step left is the end of the run (no
\* further file or archive is taken up, no further append is made).
C13_WriteFailureAborts ==
    [][(pc # "idle" /\ failed # {}) => pc' = "idle"]_vars

\* the CNPJ without ".", "/" and "-" is made of exactly 14 digits
FourteenDigits(cnpj) ==
    /\ cnpj # NaN
    /\ LET t == SelectSeqIdx(cnpj, {i \in 1..Len(cnpj) : cnpj[i] \notin {".", "/", "-"}}, 1)
       IN  Len(t) = 14 /\ \A i \in 1..14 : IsDigit(t[i])

\* C14: a record is marked CNPJ_Valido exactly when its CNPJ, without the
\* separators ".", "/" and "-", is made of exactly 14 digits (a missing, too
\* short, too long or not all-digit CNPJ is marked false), and a record with
\* a value above zero is written whatever its mark is.
C14_ValidIffFourteenDigits ==
    /\ \A k \in 1..Len(vDf) : vDf[k].CNPJ_Valido <=> FourteenDigits(vDf[k].CNPJ)
    /\ vPc = "saved" =>
          \A k \in 1..Len(vDf) :
              PositiveValue(vDf[k].ValorDespesas) =>
                  \E j \in 1..Len(vOut.lines) :
                      vOut.lines[j].src = vDf[k].src /\ vOut.lines[j].CNPJ = vDf[k].CNPJ

\* C15: the scratch directory of an archive exists only while that archive
\* is being extracted or its files are being read: at most one exists at any
\* time, none between two archives and none once the run has ended, whether
\* it returned or raised.
C15_ScratchScoped ==
    /\ Cardinality(scratch) <= 1
    /\ pc \in {"extract", "file"} => scratch = {arquivos_zip[zi]}
    /\ pc \in {"idle", "zip"} => scratch = {}

\* a run over a good archive and one with a file that raises has ended
\* raising and nothing is left
C15_Witness ==
    /\ pc = "idle" /\ last.valid
    /\ last.outcome = "raised"
    /\ last.dir = {3, 4}
    /\ Len(CSV_FINAL.lines) > 0
    /\ scratch = {}

\* the value of a line of data/processed/dados_validados.csv is a number
\* above zero (the validator writes numbers, the enricher the cells it read)
LineValuePositive(l) ==
    IF ePc = "saved" THEN PositiveValue(CoerceValue(l.ValorDespesas))
    ELSE PositiveValue(l.ValorDespesas)

\* C11: once executar_validacao and then executar_enriquecimento_total have
\* run, every line of data/processed/dados_validados.csv, the file the
\* aggregator reads, has a ValorDespesas above zero.
C11_OnlyPositiveReachAggregator ==
    (ePc \in {"saved", "raised"} /\ vOut.exists) =>
        \A k \in 1..Len(vOut.lines) : LineValuePositive(vOut.lines[k])

\* the validator with no consolidated file: message, return, output untouched
ValidatorReportsMissing ==
    vIn.state = "missing" =>
        (vPc' \in {"off", "start", "noinput"} /\ (vPc' # vPc => vOut' = vOut))

\* the enricher with no consolidated file: ends by itself, output untouched
EnricherReportsMissing ==
    vIn.state = "missing" => (ePc' \in {"off", "start", "noinput"} /\ (ePc' # ePc => vOut' = vOut))

\* the aggregator with no validated file: message, return, output untouched
AggregatorReportsMissing ==
    ~aIn.exists => (aPc' \in {"off", "start", "noinput"} /\ aOut' = aOut)

\* C12: a stage (validator, enricher, aggregator) whose input file is absent
\* ends its own run reporting it, does not raise, and leaves its output file
\* as it was.
C12_MissingInputReported ==
    [][ValidatorReportsMissing /\ EnricherReportsMissing /\ AggregatorReportsMissing]_vars

\* the same for the validator and the aggregator alone
C12_ValidatorAggregatorReport ==
    [][ValidatorReportsMissing /\ AggregatorReportsMissing]_vars

====
